---- MODULE Spec2Model ----
(***************************************************************************)
(* Model of the OCR document service of src/main.py: the two extraction    *)
(* engines (Gemini first, PaddleOCR as fallback), the normalisation of     *)
(* their results, the /ocr and /upload handlers, the temp files they       *)
(* create and the rows they submit to the Supabase table.                  *)
(*                                                                         *)
(* Python values are modelled as tagged records [t |-> <type>, ...];       *)
(* Python str values that the handlers keep in locals are sequences of     *)
(* one-character strings, so that strip(), split() and lower() are         *)
(* computed and not assumed.  Floats are exact rationals [num, den].       *)
(***************************************************************************)
EXTENDS Integers, Sequences, FiniteSets, TLC

\* ------------------------------------------------------------------ bounds

\* Files in one /upload batch.
MaxFiles == 2
\* Concurrent requests in the process (SpecConc).
NumReqs == 2
\* Detections per page handed to extract_text_from_ocr_result (SpecExtract).
MaxDet == 2
\* Nesting depth of the structures given to the conversion.
MaxDepth == 2

\* ------------------------------------------------------- python str values

NL == "\n"
SP == " "

IsSpace(c) == c = SP \/ c = NL

RECURSIVE LStrip(_)
\* str.lstrip(): drop leading whitespace.
LStrip(s) ==
    IF s = <<>> THEN <<>>
    ELSE IF IsSpace(Head(s)) THEN LStrip(Tail(s)) ELSE s

RECURSIVE RStrip(_)
\* str.rstrip(): drop trailing whitespace.
RStrip(s) ==
    IF s = <<>> THEN <<>>
    ELSE IF IsSpace(s[Len(s)]) THEN RStrip(SubSeq(s, 1, Len(s) - 1)) ELSE s

\* str.strip()
Strip(s) == RStrip(LStrip(s))

RECURSIVE SplitAcc(_, _, _)
SplitAcc(s, cur, acc) ==
    IF s = <<>> THEN Append(acc, cur)
    ELSE IF Head(s) = NL THEN SplitAcc(Tail(s), <<>>, Append(acc, cur))
    ELSE SplitAcc(Tail(s), Append(cur, Head(s)), acc)

\* str.split('\n'): the pieces between the line breaks, empty pieces kept.
SplitLines(s) == SplitAcc(s, <<>>, <<>>)

\* str.lower() on the letters the model uses.
LowerChar(c) ==
    CASE c = "P" -> "p"
      [] c = "N" -> "n"
      [] c = "G" -> "g"
      [] c = "D" -> "d"
      [] c = "F" -> "f"
      [] c = "T" -> "t"
      [] c = "X" -> "x"
      [] OTHER -> c

Lower(s) == [i \in 1..Len(s) |-> LowerChar(s[i])]

RECURSIVE RFind(_, _, _)
\* str.rfind(c) looking at positions 1..i; 0 when absent (Python's -1).
RFind(s, c, i) ==
    IF i = 0 THEN 0
    ELSE IF s[i] = c THEN i ELSE RFind(s, c, i - 1)

\* os.path.splitext(p)[1]: the text from the last dot on, unless that dot is
\* at or before a path separator or only dots precede it in the file name.
SplitExt(p) ==
    LET sepIndex == RFind(p, "/", Len(p))
        dotIndex == RFind(p, ".", Len(p))
    IN  IF dotIndex > sepIndex
           /\ \E k \in (sepIndex + 1)..(dotIndex - 1) : p[k] # "."
        THEN SubSeq(p, dotIndex, Len(p))
        ELSE <<>>

\* ------------------------------------------------------------ python floats

RECURSIVE Gcd(_, _)
Gcd(a, b) == IF b = 0 THEN a ELSE Gcd(b, a % b)

\* A float as an exact rational in lowest terms.
Rat(n, d) ==
    LET g == IF n = 0 THEN d ELSE Gcd(n, d)
    IN  [num |-> n \div g, den |-> d \div g]

RatAdd(x, y) == Rat(x.num * y.den + y.num * x.den, x.den * y.den)

RECURSIVE SumRat(_)
\* sum(all_confidences)
SumRat(xs) == IF xs = <<>> THEN Rat(0, 1) ELSE RatAdd(Head(xs), SumRat(Tail(xs)))

\* ------------------------------------------------------------ python values

None == [t |-> "None"]
PyStr(s) == [t |-> "str", s |-> s]
PyFloat(r) == [t |-> "float", v |-> r]
PyInt(n) == [t |-> "int", v |-> n]
PyBool(b) == [t |-> "bool", v |-> b]
PyList(xs) == [t |-> "list", v |-> xs]
PyTuple(xs) == [t |-> "tuple", v |-> xs]
\* A dict as its items in insertion order.
PyDict(items) == [t |-> "dict", v |-> items]
Item(k, x) == [k |-> k, x |-> x]
\* numpy values: an array of nested python data, fixed-width scalars.
NpArray(xs) == [t |-> "ndarray", v |-> xs]
NpFloat32(r) == [t |-> "np.float32", v |-> r]
NpInt64(n) == [t |-> "np.int64", v |-> n]
NpBool(b) == [t |-> "np.bool_", v |-> b]
\* An array of dtype=object: its elements are references to python objects.
NpObjectArray(xs) == [t |-> "ndarray_object", v |-> xs]
\* An object that is none of the above and has __array__: np.asarray(obj)
\* gives arr (a scalar for ndim == 0).
ArrayLike(arr) == [t |-> "array_like", v |-> arr]
\* An object with __array__ on which np.asarray raises.
ArrayLikeRaising == [t |-> "array_like_raising"]
\* str(obj) of such an object.
StrOfObject == <<"o">>

\* bool(obj) for the values the handlers test.
Truthy(x) ==
    CASE x.t = "None" -> FALSE
      [] x.t = "str" -> x.s # <<>>
      [] x.t \in {"list", "tuple", "dict", "ndarray"} -> x.v # <<>>
      [] x.t \in {"bool", "np.bool_"} -> x.v
      [] x.t \in {"int", "np.int64"} -> x.v # 0
      [] x.t \in {"float", "np.float32"} -> x.v.num # 0
      [] OTHER -> TRUE

RECURSIVE DictGetFrom(_, _, _, _)
DictGetFrom(items, key, default, i) ==
    IF i = 0 THEN default
    ELSE IF items[i].k = key THEN items[i].x
    ELSE DictGetFrom(items, key, default, i - 1)

\* dict.get(key, default)
DictGet(d, key, default) == DictGetFrom(d.v, key, default, Len(d.v))

RECURSIVE ToListData(_)
\* ndarray.tolist(): nested python lists of python scalars; the elements of
\* an object array are returned as they are stored.
ToListData(x) ==
    CASE x.t = "ndarray" -> PyList([i \in 1..Len(x.v) |-> ToListData(x.v[i])])
      [] x.t = "ndarray_object" -> PyList(x.v)
      [] x.t = "list" -> PyList([i \in 1..Len(x.v) |-> ToListData(x.v[i])])
      [] x.t = "np.float32" -> PyFloat(x.v)
      [] x.t = "np.int64" -> PyInt(x.v)
      [] x.t = "np.bool_" -> PyBool(x.v)
      [] OTHER -> x

RECURSIVE convert_to_json_serializable(_)
convert_to_json_serializable(obj) ==
    CASE obj.t \in {"ndarray", "ndarray_object"} -> ToListData(obj)
      [] obj.t = "np.int64" -> PyInt(obj.v)
      [] obj.t = "np.float32" -> PyFloat(obj.v)
      [] obj.t = "np.bool_" -> PyBool(obj.v)
      [] obj.t = "dict" ->
            PyDict([i \in 1..Len(obj.v) |->
                      Item(obj.v[i].k, convert_to_json_serializable(obj.v[i].x))])
      [] obj.t \in {"list", "tuple"} ->
            PyList([i \in 1..Len(obj.v) |-> convert_to_json_serializable(obj.v[i])])
      [] obj.t = "array_like" ->
            IF obj.v.t \in {"ndarray", "ndarray_object"}
            THEN convert_to_json_serializable(obj.v)
            ELSE convert_to_json_serializable(ToListData(obj.v))
      [] obj.t = "array_like_raising" -> PyStr(StrOfObject)
      [] OTHER -> obj

\* ------------------------------------------------------- engine: Gemini

\* confidence = 0.95
GeminiConfidence == Rat(19, 20)

RECURSIVE GeminiLines(_, _)
\* The loop over enumerate(lines): one dict per line that is non-empty after
\* strip(), carrying i + 1 as its line_number (i counts every line).
GeminiLines(lines, i) ==
    IF i = 0 THEN <<>>
    ELSE LET before == GeminiLines(lines, i - 1)
         IN  IF Strip(lines[i]) # <<>>
             THEN Append(before,
                         PyDict(<< Item("text", PyStr(Strip(lines[i]))),
                                   Item("confidence", PyFloat(GeminiConfidence)),
                                   Item("line_number", PyInt(i)) >>))
             ELSE before

\* extract_text_with_gemini on a response whose .text is `text` (None or a
\* str): the tuple (extracted_text, confidence, text_lines).
extract_text_with_gemini(text) ==
    LET extracted_text == IF Truthy(text) THEN Strip(text.s) ELSE <<>>
        lines == SplitLines(extracted_text)
    IN  [extracted_text |-> extracted_text,
         confidence |-> GeminiConfidence,
         text_lines |-> IF extracted_text # <<>>
                        THEN GeminiLines(lines, Len(lines))
                        ELSE <<>>]

\* ----------------------------------------------------- engine: PaddleOCR

\* float(confidence_raw)
ToFloat(x) == IF x.t \in {"int", "np.int64"} THEN Rat(x.v, 1) ELSE x.v

\* A loop that keeps every detection, empty text or not.
TextKeptAlways(text) == TRUE

\* if text:
TextKept(text) == Truthy(text)

\* if confidence_raw is not None:
ScorePresent(confidence_raw) == confidence_raw.t # "None"

EmptyExtract == [extracted_text |-> <<>>, all_confidences |-> <<>>, text_lines |-> <<>>]

\* The body of `for i, text in enumerate(rec_texts)` for the detection at
\* 1-based position i of page res.
ExtractDetection(acc, res, i) ==
    LET rec_texts == DictGet(res, "rec_texts", PyList(<<>>)).v
        rec_scores == DictGet(res, "rec_scores", PyList(<<>>)).v
        dt_polys == DictGet(res, "dt_polys", PyList(<<>>)).v
        text == rec_texts[i]
        polygon == IF i <= Len(dt_polys)
                   THEN convert_to_json_serializable(dt_polys[i])
                   ELSE None
        hasConf == i <= Len(rec_scores) /\ ScorePresent(rec_scores[i])
        confidence == IF hasConf THEN PyFloat(ToFloat(rec_scores[i])) ELSE None
        text_line == convert_to_json_serializable(
                         PyDict(<< Item("text", PyStr(text.s)),
                                   Item("confidence", confidence),
                                   Item("polygon", polygon) >>))
    IN  IF TextKept(text)
        THEN [extracted_text |-> acc.extracted_text \o text.s \o <<NL>>,
              all_confidences |-> IF hasConf
                                  THEN Append(acc.all_confidences, ToFloat(rec_scores[i]))
                                  ELSE acc.all_confidences,
              text_lines |-> Append(acc.text_lines, text_line)]
        ELSE acc

RECURSIVE ExtractPage(_, _, _)
\* Detections 1..i of page res, in order.
ExtractPage(acc, res, i) ==
    IF i = 0 THEN acc
    ELSE ExtractDetection(ExtractPage(acc, res, i - 1), res, i)

RECURSIVE ExtractPages(_, _)
\* `for res in ocr_result`: pages 1..p in order, non-dict pages skipped.
ExtractPages(pages, p) ==
    IF p = 0 THEN EmptyExtract
    ELSE LET before == ExtractPages(pages, p - 1)
             res == pages[p]
         IN  IF res.t = "dict"
             THEN ExtractPage(before, res,
                              Len(DictGet(res, "rec_texts", PyList(<<>>)).v))
             ELSE before

\* extract_text_from_ocr_result: (extracted_text, all_confidences, text_lines)
extract_text_from_ocr_result(ocr_result) ==
    IF ~Truthy(ocr_result) THEN EmptyExtract
    ELSE ExtractPages(ocr_result.v, Len(ocr_result.v))

\* avg_confidence = sum(all_confidences) / len(all_confidences)
\*                  if all_confidences else None
AvgConfidence(all_confidences) ==
    IF all_confidences # <<>>
    THEN LET s == SumRat(all_confidences)
         IN  PyFloat(Rat(s.num, s.den * Len(all_confidences)))
    ELSE None

\* The same with a truth test, `if avg_confidence`, in place of `is not None`.
ResponseConfidenceIfTruthy(avg_confidence) ==
    IF Truthy(avg_confidence) THEN PyFloat(avg_confidence.v) ELSE None

\* confidence=float(avg_confidence) if avg_confidence is not None else None
ResponseConfidence(avg_confidence) ==
    IF avg_confidence.t # "None" THEN PyFloat(avg_confidence.v) ELSE None

\* --------------------------------------------------------------- state

VARIABLES
    gemini_model,   \* TRUE when the module-level Gemini model was created
    supabase,       \* TRUE when the module-level Supabase client was created
    ocr,            \* the module-level PaddleOCR instance: 0 is None
    constructed,    \* how many times PaddleOCR(...) has been constructed
    tempStorage,    \* the temp files that exist (their paths)
    inserts,        \* every insert submitted to the table, with its outcome
    req,            \* per request: the handler's locals and its position
    running,        \* the request whose coroutine the event loop runs; 0: none
    fnIn,           \* SpecExtract: the engine output under extraction
    fnOut           \* SpecExtract: what the extraction returned for fnIn

vars == << gemini_model, supabase, ocr, constructed, tempStorage, inserts,
           req, running, fnIn, fnOut >>

Reqs == 1..NumReqs

\* allowed_extensions = {'.png', '.jpg', '.jpeg', '.pdf', '.bmp', '.tiff'}
allowed_extensions ==
    { <<".", "p", "n", "g">>, <<".", "j", "p", "g">>, <<".", "j", "p", "e", "g">>,
      <<".", "p", "d", "f">>, <<".", "b", "m", "p">>, <<".", "t", "i", "f", "f">> }

\* The extension compared as it was sent, without .lower().
FileExtensionAsSent(filename) == SplitExt(filename)

\* file_extension = os.path.splitext(file.filename)[1].lower()
FileExtension(filename) == Lower(SplitExt(filename))

\* A handler without the extension test.
ExtensionRejectedNever(file_extension) == FALSE

\* if file_extension not in allowed_extensions:
ExtensionRejected(file_extension) == file_extension \notin allowed_extensions

\* ---------------------------------------------------- exceptions, messages

NoExc == [kind |-> "none", status |-> 0, msg |-> <<>>]
PyException(msg) == [kind |-> "Exception", status |-> 0, msg |-> msg]
HTTPException(status, detail) == [kind |-> "HTTPException", status |-> status, msg |-> detail]

\* str(e): the message of an Exception; "<status>: <detail>" for HTTPException.
StrOf(e) == IF e.kind = "HTTPException" THEN <<ToString(e.status), ": ">> \o e.msg ELSE e.msg

UnsupportedMsg(file_extension) ==
    <<"File type ">> \o file_extension \o <<" not supported. Allowed types: ...">>
BothFailedMsg == <<"Both Gemini and PaddleOCR failed to extract text">>
GeminiFailedMsg == <<"Gemini OCR failed: ", "generate_content raised">>
PredictFailedMsg == <<"predict raised">>
InsertFailedMsg == <<"insert raised">>
WriteFailedMsg == <<"temp write raised">>
UnlinkFailedMsg == <<"unlink raised">>

NoData == [t |-> "unbound"]
NoResponse == [status |-> 0, detail |-> <<>>, data |-> NoData]
HttpError(e) == [status |-> e.status, detail |-> e.msg, data |-> NoData]
HttpOk(data) == [status |-> 200, detail |-> <<>>, data |-> data]

\* ------------------------------------------------------- handler locals

NoFile == [filename |-> <<>>, size |-> 0]

\* The locals of one file's processing, with what the engines and the store
\* answered for it (primary, secondary, store) and the calls made (events).
NewCur(file) ==
    [filename |-> file.filename,
     content_size |-> file.size,
     file_extension |-> <<>>,
     file_size |-> 0,
     temp_file_path |-> <<>>,
     extracted_text |-> <<>>,
     all_confidences |-> <<>>,
     text_lines |-> <<>>,
     ocr_method |-> "None",
     avg_confidence |-> NoData,
     document_data |-> NoData,
     exc |-> NoExc,
     result |-> NoData,
     primary |-> "not_called",
     secondary |-> "not_called",
     predicted |-> NoData,
     store |-> "not_called",
     events |-> <<>>]

IdleReq ==
    [endpoint |-> "none", pc |-> "idle", files |-> <<>>, idx |-> 0,
     cur |-> NewCur(NoFile), successful_docs |-> <<>>, errors |-> <<>>,
     response |-> NoResponse]

Log(c, e) == [c EXCEPT !.events = Append(@, e)]

\* Handlers are coroutines (async def) on one event loop: a request's code
\* runs only while it holds the loop, and gives it up only at an await.
\* Handlers run on worker threads (plain def): any request may step.
ScheduledOnThreads(r, resuming) == TRUE

Scheduled(r, resuming) == IF resuming THEN running = 0 ELSE running = r

\* ------------------------------------------------------ exception routing

\* The outer handler without its `except HTTPException: raise` clause.
OcrOuterExceptWrapsAll(e) ==
    HTTPException(500, <<"Error processing document: ">> \o StrOf(e))

\* except HTTPException: raise / except Exception as e: raise
\* HTTPException(500, f"Error processing document: {str(e)}")  (/ocr)
OcrOuterExcept(e) ==
    IF e.kind = "HTTPException" THEN e
    ELSE HTTPException(500, <<"Error processing document: ">> \o StrOf(e))

\* except Exception as e: errors.append({"filename": ..., "error":
\* f"Error processing file: {str(e)}"})  (/upload)
UploadExceptEntry(filename, e) ==
    [filename |-> filename, error |-> <<"Error processing file: ">> \o StrOf(e)]

\* A handler whose /upload loop has no except clause recording the error.
RaiseUnrecorded(q, e) == [q EXCEPT !.cur.exc = e, !.pc = "finally"]

\* An exception raised while the file's temp file exists: /ocr leaves its
\* inner try through the finally block with the exception in flight; /upload
\* records the file's error in its except clause and then runs its finally.
Raise(q, e) ==
    IF q.endpoint = "ocr"
    THEN [q EXCEPT !.cur.exc = e, !.pc = "finally"]
    ELSE [q EXCEPT !.errors = Append(@, UploadExceptEntry(q.cur.filename, e)),
                   !.cur = Log([@ EXCEPT !.exc = e], "append_err"),
                   !.pc = "finally"]

\* -------------------------------------------------------------- requests

\* A request arrives: POST /ocr with one file, or POST /upload with a batch.
Arrive(r, E) ==
    /\ req[r].pc = "idle"
    /\ \E ep \in E.endpoints :
         \E fs \in (IF ep = "ocr" THEN {<<f>> : f \in E.files} ELSE E.batches) :
           req' = [req EXCEPT ![r] = [IdleReq EXCEPT !.endpoint = ep, !.pc = "start",
                                                     !.files = fs, !.idx = 1,
                                                     !.cur = NewCur(fs[1])]]
    /\ UNCHANGED << gemini_model, supabase, ocr, constructed, tempStorage, inserts,
                    running, fnIn, fnOut >>

\* /ocr up to `await file.read()`: the extension check, then the read.
OcrValidate(r) ==
    LET q == req[r]
        ext == FileExtension(q.cur.filename)
    IN  /\ q.endpoint = "ocr" /\ q.pc = "start"
        /\ Scheduled(r, TRUE)
        /\ IF ExtensionRejected(ext)
           THEN /\ req' = [req EXCEPT ![r] =
                            [q EXCEPT !.cur.file_extension = ext,
                                      !.cur.exc = HTTPException(400, UnsupportedMsg(ext)),
                                      !.response = HttpError(OcrOuterExcept(
                                                      HTTPException(400, UnsupportedMsg(ext)))),
                                      !.pc = "done"]]
                /\ running' = 0
           ELSE /\ req' = [req EXCEPT ![r] = [q EXCEPT !.cur.file_extension = ext,
                                                       !.pc = "await_read"]]
                /\ running' = 0
        /\ UNCHANGED << gemini_model, supabase, ocr, constructed, tempStorage, inserts,
                        fnIn, fnOut >>

\* /upload before its loop: successful_docs = [], errors = [].
UploadBegin(r) ==
    LET q == req[r]
    IN  /\ q.endpoint = "upload" /\ q.pc = "start"
        /\ Scheduled(r, TRUE)
        /\ req' = [req EXCEPT ![r] = [q EXCEPT !.successful_docs = <<>>, !.errors = <<>>,
                                               !.pc = "loop"]]
        /\ running' = r
        /\ UNCHANGED << gemini_model, supabase, ocr, constructed, tempStorage, inserts,
                        fnIn, fnOut >>

\* /upload, one iteration up to `await file.read()`: the extension check; a
\* rejected file gets its errors entry and `continue` (through finally).
UploadValidate(r) ==
    LET q == req[r]
        ext == FileExtension(q.cur.filename)
    IN  /\ q.endpoint = "upload" /\ q.pc = "loop" /\ q.idx <= Len(q.files)
        /\ Scheduled(r, FALSE)
        /\ IF ExtensionRejected(ext)
           THEN /\ req' = [req EXCEPT ![r] =
                            [q EXCEPT !.cur = Log([@ EXCEPT !.file_extension = ext], "append_err"),
                                      !.errors = Append(@, [filename |-> q.cur.filename,
                                                            error |-> UnsupportedMsg(ext)]),
                                      !.pc = "finally"]]
                /\ running' = r
           ELSE /\ req' = [req EXCEPT ![r] = [q EXCEPT !.cur.file_extension = ext,
                                                       !.pc = "await_read"]]
                /\ running' = 0
        /\ UNCHANGED << gemini_model, supabase, ocr, constructed, tempStorage, inserts,
                        fnIn, fnOut >>

\* The path of the temp file of request r's current file.
TempPath(r, q) == <<r, q.idx>>

\* After the read: file_size, then the temp file is created and written.
TempFile(r) ==
    LET q == req[r]
        path == TempPath(r, q)
    IN  /\ q.pc = "await_read"
        /\ Scheduled(r, TRUE)
        /\ tempStorage' = tempStorage \cup {path}
        /\ req' = [req EXCEPT ![r] =
                     [q EXCEPT !.cur = Log(Log([@ EXCEPT !.file_size = q.cur.content_size,
                                                         !.temp_file_path = path],
                                               "temp_create"), "temp_write"),
                               !.pc = "gemini"]]
        /\ running' = r
        /\ UNCHANGED << gemini_model, supabase, ocr, constructed, inserts, fnIn, fnOut >>

\* An except clause that raises the Gemini error again.
GeminiExceptReraises(q, e) == Raise(q, e)

\* except Exception as gemini_error: logged, nothing raised, fall through.
GeminiExcept(q, e) == [q EXCEPT !.pc = "fallback"]

\* The Gemini attempt: `if gemini_model:` try extract_text_with_gemini; the
\* locals are assigned only when the call returns.
TryGemini(r, E) ==
    LET q == req[r]
    IN  /\ q.pc = "gemini"
        /\ Scheduled(r, FALSE)
        /\ IF gemini_model
           THEN \E resp \in E.gemini :
                  IF resp.raises
                  THEN req' = [req EXCEPT ![r] =
                                 GeminiExcept([q EXCEPT !.cur = Log([@ EXCEPT !.primary = "raised"],
                                                                    "gemini_call")],
                                              PyException(GeminiFailedMsg))]
                  ELSE LET g == extract_text_with_gemini(resp.text)
                       IN  req' = [req EXCEPT ![r] =
                              [q EXCEPT
                                 !.cur = Log([@ EXCEPT
                                    !.extracted_text = g.extracted_text,
                                    !.text_lines = g.text_lines,
                                    !.all_confidences =
                                        IF g.text_lines # <<>>
                                        THEN [i \in 1..Len(g.text_lines) |-> g.confidence]
                                        ELSE <<g.confidence>>,
                                    !.avg_confidence = PyFloat(g.confidence),
                                    !.ocr_method = "gemini",
                                    !.primary = IF g.extracted_text = <<>>
                                                THEN "empty" ELSE "text"],
                                    "gemini_call"),
                                 !.pc = "fallback"]]
           ELSE req' = [req EXCEPT ![r] = [q EXCEPT !.pc = "fallback"]]
        /\ UNCHANGED << gemini_model, supabase, ocr, constructed, tempStorage, inserts,
                        running, fnIn, fnOut >>

\* The test without its `not extracted_text` half.
NeedsFallbackByMethodOnly(extracted_text, ocr_method) == ocr_method # "gemini"

\* A handler that runs the secondary engine on every file.
NeedsFallbackAlways(extracted_text, ocr_method) == TRUE

\* if not extracted_text or ocr_method != "gemini":
NeedsFallback(extracted_text, ocr_method) ==
    extracted_text = <<>> \/ ocr_method # "gemini"

\* get_ocr(): if ocr is None:
OcrIsNone(o) == o = 0

\* The fallback test, and get_ocr() up to its test of the global.
GetOcr(r) ==
    LET q == req[r]
    IN  /\ q.pc = "fallback"
        /\ Scheduled(r, FALSE)
        /\ req' = [req EXCEPT ![r] =
                     IF NeedsFallback(q.cur.extracted_text, q.cur.ocr_method)
                     THEN [q EXCEPT !.cur = Log(@, "get_ocr"),
                                    !.pc = IF OcrIsNone(ocr) THEN "construct" ELSE "predict"]
                     ELSE [q EXCEPT !.pc = "check"]]
        /\ UNCHANGED << gemini_model, supabase, ocr, constructed, tempStorage, inserts,
                        running, fnIn, fnOut >>

\* get_ocr(): ocr = PaddleOCR(...)
Construct(r) ==
    LET q == req[r]
    IN  /\ q.pc = "construct"
        /\ Scheduled(r, FALSE)
        /\ constructed' = constructed + 1
        /\ ocr' = constructed + 1
        /\ req' = [req EXCEPT ![r] = [q EXCEPT !.cur = Log(@, "construct"), !.pc = "predict"]]
        /\ UNCHANGED << gemini_model, supabase, tempStorage, inserts, running, fnIn, fnOut >>

\* ocr_instance.predict(...), then the conversion and the extraction; an
\* exception of predict leaves the try block.
Predict(r, E) ==
    LET q == req[r]
    IN  /\ q.pc = "predict"
        /\ Scheduled(r, FALSE)
        /\ \E out \in E.paddle :
             IF out.raises
             THEN req' = [req EXCEPT ![r] =
                            Raise([q EXCEPT !.cur = Log([@ EXCEPT !.secondary = "raised"],
                                                        "predict_call")],
                                  PyException(PredictFailedMsg))]
             ELSE LET ocr_result == convert_to_json_serializable(out.result)
                      x == extract_text_from_ocr_result(ocr_result)
                  IN  req' = [req EXCEPT ![r] =
                         [q EXCEPT
                            !.cur = Log([@ EXCEPT
                               !.extracted_text = x.extracted_text,
                               !.all_confidences = x.all_confidences,
                               !.text_lines = x.text_lines,
                               !.avg_confidence = AvgConfidence(x.all_confidences),
                               !.ocr_method = "paddleocr",
                               !.secondary = "returned",
                               !.predicted = out.result],
                               "predict_call"),
                            !.pc = "check"]]
        /\ UNCHANGED << gemini_model, supabase, ocr, constructed, tempStorage, inserts,
                        running, fnIn, fnOut >>

\* A row tagged by which engine is configured, not by which one produced
\* the text.
DocumentDataTaggedByConfiguration(r, q) ==
    [id |-> <<r, q.idx>>,
     filename |-> q.cur.filename,
     extracted_text |-> Strip(q.cur.extracted_text),
     confidence |-> q.cur.avg_confidence,
     file_type |-> q.cur.file_extension,
     file_size |-> q.cur.file_size,
     ocr_method |-> IF gemini_model THEN "gemini" ELSE "paddleocr",
     created_at |-> "now"]

\* document_data = {...}
DocumentData(r, q) ==
    [id |-> <<r, q.idx>>,
     filename |-> q.cur.filename,
     extracted_text |-> Strip(q.cur.extracted_text),
     confidence |-> q.cur.avg_confidence,
     file_type |-> q.cur.file_extension,
     file_size |-> q.cur.file_size,
     ocr_method |-> q.cur.ocr_method,
     created_at |-> "now"]

\* A handler without the both-failed test.
BothFailedNever(extracted_text) == FALSE

\* if not extracted_text: raise Exception("Both ... failed to extract text")
BothFailed(extracted_text) == extracted_text = <<>>

\* The both-failed test, then the row for the table.
CheckText(r) ==
    LET q == req[r]
    IN  /\ q.pc = "check"
        /\ Scheduled(r, FALSE)
        /\ req' = [req EXCEPT ![r] =
                     IF BothFailed(q.cur.extracted_text)
                     THEN Raise(q, PyException(BothFailedMsg))
                     ELSE [q EXCEPT !.cur.document_data = DocumentData(r, q),
                                    !.pc = "store"]]
        /\ UNCHANGED << gemini_model, supabase, ocr, constructed, tempStorage, inserts,
                        running, fnIn, fnOut >>

\* The exception the insert ends in when the table rejects the row: the
\* client's own, or the handler's for a result without data.
StoreRejection(endpoint, outcome) ==
    IF outcome = "raise" THEN PyException(InsertFailedMsg)
    ELSE IF endpoint = "ocr"
         THEN HTTPException(500, <<"Failed to save document to database">>)
         ELSE PyException(<<"No data returned from insert">>)

\* except Exception as db_error: raise HTTPException(500,
\*     f"Database error: {str(db_error)}")  (/ocr)
OcrDbExcept(db_error) == HTTPException(500, <<"Database error: ">> \o StrOf(db_error))

\* except Exception as db_error: errors.append({... f"Database error: ..."})
UploadDbEntry(filename, db_error) ==
    [filename |-> filename, error |-> <<"Database error: ">> \o StrOf(db_error)]

\* `if supabase:` insert the row; a rejection is a database error: raised
\* in /ocr, recorded in errors followed by `continue` in /upload.
Store(r, E) ==
    LET q == req[r]
    IN  /\ q.pc = "store"
        /\ Scheduled(r, FALSE)
        /\ IF supabase
           THEN \E outcome \in E.store :
                  LET c == Log([q.cur EXCEPT !.store = outcome], "insert_call")
                      db_error == StoreRejection(q.endpoint, outcome)
                  IN  /\ inserts' = Append(inserts, [row |-> q.cur.document_data,
                                                     outcome |-> outcome])
                      /\ req' = [req EXCEPT ![r] =
                           IF outcome = "ok"
                           THEN [q EXCEPT !.cur = c, !.pc = "respond"]
                           ELSE IF q.endpoint = "ocr"
                           THEN [q EXCEPT !.cur = [c EXCEPT !.exc = OcrDbExcept(db_error)],
                                          !.pc = "finally"]
                           ELSE [q EXCEPT !.cur = Log([c EXCEPT !.exc = db_error], "append_err"),
                                          !.errors = Append(@, UploadDbEntry(q.cur.filename,
                                                                             db_error)),
                                          !.pc = "finally"]]
           ELSE /\ req' = [req EXCEPT ![r] = [q EXCEPT !.pc = "respond"]]
                /\ inserts' = inserts
        /\ UNCHANGED << gemini_model, supabase, ocr, constructed, tempStorage,
                        running, fnIn, fnOut >>

\* serializable_text_lines: None for no lines, else each line converted.
SerializableTextLines(text_lines) ==
    IF text_lines = <<>> THEN None
    ELSE PyList([i \in 1..Len(text_lines) |-> convert_to_json_serializable(text_lines[i])])

\* OCRResult(document_id=..., ..., created_at=document_data["created_at"])
OCRResult(q) ==
    [document_id |-> q.cur.document_data.id,
     filename |-> q.cur.filename,
     extracted_text |-> Strip(q.cur.extracted_text),
     confidence |-> ResponseConfidence(q.cur.avg_confidence),
     text_lines |-> SerializableTextLines(q.cur.text_lines),
     created_at |-> q.cur.document_data.created_at]

\* The success path: /ocr returns its DocumentResponse (through finally),
\* /upload appends the OCRResult to successful_docs.
Respond(r) ==
    LET q == req[r]
    IN  /\ q.pc = "respond"
        /\ Scheduled(r, FALSE)
        /\ req' = [req EXCEPT ![r] =
                     IF q.endpoint = "ocr"
                     THEN [q EXCEPT !.cur.result = [success |-> TRUE, data |-> OCRResult(q)],
                                    !.pc = "finally"]
                     ELSE [q EXCEPT !.successful_docs = Append(@, OCRResult(q)),
                                    !.cur = Log(@, "append_doc"),
                                    !.pc = "finally"]]
        /\ UNCHANGED << gemini_model, supabase, ocr, constructed, tempStorage, inserts,
                        running, fnIn, fnOut >>

\* What /ocr answers once its finally block is through: the returned
\* response, or the exception in flight as the outer except clauses map it.
OcrAnswer(c) ==
    IF c.exc.kind = "none" THEN HttpOk(c.result) ELSE HttpError(OcrOuterExcept(c.exc))

\* finally: the temp file is unlinked when its path is set and it exists.
Cleanup(r) ==
    LET q == req[r]
        held == q.cur.temp_file_path # <<>> /\ q.cur.temp_file_path \in tempStorage
        c == IF held THEN Log(q.cur, "unlink") ELSE q.cur
    IN  /\ q.pc = "finally"
        /\ Scheduled(r, FALSE)
        /\ tempStorage' = IF held THEN tempStorage \ {q.cur.temp_file_path} ELSE tempStorage
        /\ IF q.endpoint = "ocr"
           THEN /\ req' = [req EXCEPT ![r] = [q EXCEPT !.cur = c, !.response = OcrAnswer(c),
                                                       !.pc = "done"]]
                /\ running' = 0
           ELSE /\ req' = [req EXCEPT ![r] = [q EXCEPT !.cur = c, !.pc = "file_done"]]
                /\ running' = r
        /\ UNCHANGED << gemini_model, supabase, ocr, constructed, inserts, fnIn, fnOut >>

\* for idx, file in enumerate(files, 1): the next file, with fresh locals.
UploadAdvance(r) ==
    LET q == req[r]
    IN  /\ q.endpoint = "upload" /\ q.pc = "file_done"
        /\ Scheduled(r, FALSE)
        /\ req' = [req EXCEPT ![r] =
                     [q EXCEPT !.idx = @ + 1,
                               !.cur = IF q.idx < Len(q.files)
                                       THEN NewCur(q.files[q.idx + 1]) ELSE NewCur(NoFile),
                               !.pc = "loop"]]
        /\ UNCHANGED << gemini_model, supabase, ocr, constructed, tempStorage, inserts,
                        running, fnIn, fnOut >>

\* UploadResponse(success=successful > 0, ..., errors=errors if errors else None)
UploadResponse(q) ==
    [success |-> Len(q.successful_docs) > 0,
     total_files |-> Len(q.files),
     successful |-> Len(q.successful_docs),
     failed |-> Len(q.errors),
     documents |-> q.successful_docs,
     errors |-> IF q.errors # <<>> THEN PyList(q.errors) ELSE None]

\* After the loop: the summary.
UploadSummary(r) ==
    LET q == req[r]
    IN  /\ q.endpoint = "upload" /\ q.pc = "loop" /\ q.idx > Len(q.files)
        /\ Scheduled(r, FALSE)
        /\ req' = [req EXCEPT ![r] = [q EXCEPT !.response = HttpOk(UploadResponse(q)),
                                               !.pc = "done"]]
        /\ running' = 0
        /\ UNCHANGED << gemini_model, supabase, ocr, constructed, tempStorage, inserts,
                        fnIn, fnOut >>

\* ------------------------------------------------- temp storage failures

\* temp_file.write(file_content) raises: the file exists (delete=False) and
\* its path was never bound inside a try that unlinks it.  /ocr is outside
\* its inner try, so only the outer except clause runs; /upload records the
\* error and its finally finds temp_file_path unset.
TempWriteFails(r) ==
    LET q == req[r]
        e == PyException(WriteFailedMsg)
        c == Log(q.cur, "temp_create")
    IN  /\ q.pc = "await_read"
        /\ Scheduled(r, TRUE)
        /\ tempStorage' = tempStorage \cup {TempPath(r, q)}
        /\ IF q.endpoint = "ocr"
           THEN /\ req' = [req EXCEPT ![r] =
                            [q EXCEPT !.cur = [c EXCEPT !.exc = e],
                                      !.response = HttpError(OcrOuterExcept(e)),
                                      !.pc = "done"]]
                /\ running' = 0
           ELSE /\ req' = [req EXCEPT ![r] = Raise([q EXCEPT !.cur = c], e)]
                /\ running' = r
        /\ UNCHANGED << gemini_model, supabase, ocr, constructed, inserts, fnIn, fnOut >>

\* os.unlink(temp_file_path) raises: in /ocr the exception leaves the
\* finally block in place of whatever was returned or in flight; /upload
\* catches it and logs a warning.  The file stays.
CleanupFails(r) ==
    LET q == req[r]
        e == PyException(UnlinkFailedMsg)
    IN  /\ q.pc = "finally"
        /\ q.cur.temp_file_path # <<>> /\ q.cur.temp_file_path \in tempStorage
        /\ Scheduled(r, FALSE)
        /\ IF q.endpoint = "ocr"
           THEN /\ req' = [req EXCEPT ![r] =
                            [q EXCEPT !.cur.exc = e,
                                      !.response = HttpError(OcrOuterExcept(e)),
                                      !.pc = "done"]]
                /\ running' = 0
           ELSE /\ req' = [req EXCEPT ![r] = [q EXCEPT !.pc = "file_done"]]
                /\ running' = r
        /\ UNCHANGED << gemini_model, supabase, ocr, constructed, tempStorage, inserts,
                        fnIn, fnOut >>

\* ------------------------------------------------- what the outside sends

Half == Rat(1, 2)
One == Rat(1, 1)
Zero == Rat(0, 1)

\* One page of predict(): a dict of parallel lists.
Page(rec_texts, rec_scores, dt_polys) ==
    PyDict(<< Item("rec_texts", PyList(rec_texts)),
              Item("rec_scores", PyList(rec_scores)),
              Item("dt_polys", PyList(dt_polys)) >>)

\* A detection polygon as the engine returns it: an int array of points.
Poly == NpArray(<< NpArray(<<NpInt64(0), NpInt64(1)>>), NpArray(<<NpInt64(2), NpInt64(1)>>) >>)

Returned(result) == [raises |-> FALSE, result |-> result]
PredictRaises == [raises |-> TRUE, result |-> None]

\* Outcomes of predict(): an exception, no page, and pages whose texts are
\* all empty, mixed with missing scores, unscored, scored zero, blank.
PaddleOutcomes ==
    { PredictRaises,
      Returned(PyList(<<>>)),
      Returned(PyList(<< Page(<<PyStr(<<>>)>>, <<NpFloat32(Half)>>, <<Poly>>) >>)),
      Returned(PyList(<< Page(<<PyStr(<<"a">>), PyStr(<<>>), PyStr(<<"b">>)>>,
                              <<NpFloat32(Half), NpFloat32(One), None>>,
                              <<Poly, Poly>>) >>)),
      Returned(PyList(<< Page(<<PyStr(<<"b">>)>>, <<>>, <<Poly>>) >>)),
      Returned(PyList(<< Page(<<PyStr(<<"a">>)>>, <<NpFloat32(Zero)>>, <<Poly>>) >>)),
      Returned(PyList(<< Page(<<PyStr(<<SP>>)>>, <<NpFloat32(One)>>, <<Poly>>) >>)) }

Answered(text) == [raises |-> FALSE, text |-> text]
GeminiRaises == [raises |-> TRUE, text |-> None]

\* Outcomes of generate_content(): an exception, a response without text,
\* blank text, and text with a blank line between two lines.
GeminiOutcomes ==
    { GeminiRaises,
      Answered(None),
      Answered(PyStr(<<SP, NL>>)),
      Answered(PyStr(<<"a", NL, NL, "b", SP>>)) }

StoreOutcomes == {"ok", "no_data", "raise"}

MkFile(filename, size) == [filename |-> filename, size |-> size]

\* a.png, b.PDF (accepted once lower-cased), c.txt, and .png (a dot file:
\* no extension).
UploadedFiles ==
    { MkFile(<<"a", ".", "p", "n", "g">>, 1),
      MkFile(<<"b", ".", "P", "D", "F">>, 2),
      MkFile(<<"c", ".", "t", "x", "t">>, 1),
      MkFile(<<".", "p", "n", "g">>, 0) }

\* The non-empty sequences of at most n elements of S.
SeqsUpTo(S, n) == UNION { [1..k -> S] : k \in 1..n }

FullEnv ==
    [endpoints |-> {"ocr", "upload"},
     files |-> UploadedFiles,
     batches |-> SeqsUpTo(UploadedFiles, MaxFiles),
     gemini |-> GeminiOutcomes,
     paddle |-> PaddleOutcomes,
     store |-> StoreOutcomes]

\* ---------------------------------------------------------- specification

Init ==
    /\ gemini_model \in BOOLEAN
    /\ supabase \in BOOLEAN
    /\ ocr = 0
    /\ constructed = 0
    /\ tempStorage = {}
    /\ inserts = <<>>
    /\ req = [r \in Reqs |-> IdleReq]
    /\ running = 0
    /\ fnIn = None
    /\ fnOut = NoData

Step(r, E) ==
    \/ Arrive(r, E)
    \/ OcrValidate(r)
    \/ UploadBegin(r)
    \/ UploadValidate(r)
    \/ TempFile(r)
    \/ TryGemini(r, E)
    \/ GetOcr(r)
    \/ Construct(r)
    \/ Predict(r, E)
    \/ CheckText(r)
    \/ Store(r, E)
    \/ Respond(r)
    \/ Cleanup(r)
    \/ UploadAdvance(r)
    \/ UploadSummary(r)

\* One request, every engine and store outcome, reliable temp storage.
Next == Step(1, FullEnv)

Spec == Init /\ [][Next]_vars

\* The same request when writing or unlinking the temp file may fail.
NextTempFaults ==
    \/ Step(1, FullEnv)
    \/ TempWriteFails(1)
    \/ CleanupFails(1)

SpecTempFaults == Init /\ [][NextTempFaults]_vars

\* Concurrent requests: fewer outcomes per call, every interleaving the
\* event loop allows.
ConcEnv ==
    [endpoints |-> {"ocr", "upload"},
     files |-> { MkFile(<<"a", ".", "p", "n", "g">>, 1) },
     batches |-> { <<MkFile(<<"a", ".", "p", "n", "g">>, 1),
                     MkFile(<<"b", ".", "P", "D", "F">>, 2)>> },
     gemini |-> { GeminiRaises, Answered(PyStr(<<"a">>)) },
     paddle |-> { PredictRaises,
                  Returned(PyList(<< Page(<<PyStr(<<"a">>)>>, <<NpFloat32(Zero)>>, <<Poly>>) >>)) },
     store |-> {"ok"}]

NextConc == \E r \in Reqs : Step(r, ConcEnv)

SpecConc == Init /\ [][NextConc]_vars

\* ------------------------------------ the extraction on bounded engine output

TextValues == { PyStr(<<>>), PyStr(<<"a">>), PyStr(<<"b">>) }
ScoreValues == { None, NpFloat32(Zero), NpFloat32(Half) }

\* The sequences of at most n elements of S, the empty one included.
SeqsFrom0(S, n) == UNION { [1..k -> S] : k \in 0..n }

\* Pages with up to MaxDet texts, scores and polygons, the three lists of
\* independent lengths.
Pages ==
    { Page(ts, ss, ps) : ts \in SeqsFrom0(TextValues, MaxDet),
                         ss \in SeqsFrom0(ScoreValues, MaxDet),
                         ps \in SeqsFrom0({Poly}, MaxDet) }

SecondPage == Page(<<PyStr(<<"b">>), PyStr(<<>>)>>, <<NpFloat32(One)>>, <<>>)

\* predict() results: one page, and a page between an entry that is no
\* dict and a second page.
ExtractInputs ==
    { PyList(<<pg>>) : pg \in Pages }
      \cup { PyList(<<None, pg, SecondPage>>) : pg \in Pages }

InitExtract ==
    /\ gemini_model = FALSE
    /\ supabase = FALSE
    /\ ocr = 0
    /\ constructed = 0
    /\ tempStorage = {}
    /\ inserts = <<>>
    /\ req = [r \in Reqs |-> IdleReq]
    /\ running = 0
    /\ fnIn \in ExtractInputs
    /\ fnOut = NoData

\* The secondary path on fnIn: the conversion, the extraction, the average
\* and the confidence of the response.
ApplyExtract ==
    /\ fnOut.t = "unbound"
    /\ LET ocr_result == convert_to_json_serializable(fnIn)
           x == extract_text_from_ocr_result(ocr_result)
           avg_confidence == AvgConfidence(x.all_confidences)
       IN  fnOut' = [t |-> "done",
                     extracted_text |-> x.extracted_text,
                     all_confidences |-> x.all_confidences,
                     text_lines |-> x.text_lines,
                     avg_confidence |-> avg_confidence,
                     confidence |-> ResponseConfidence(avg_confidence)]
    /\ UNCHANGED << gemini_model, supabase, ocr, constructed, tempStorage, inserts,
                    req, running, fnIn >>

NextExtract == ApplyExtract

SpecExtract == InitExtract /\ [][NextExtract]_vars

\* -------------------------------------- the conversion on bounded structures

\* Polygons of two and of three points in one array: the rows differ in
\* length, so the array is of dtype=object and holds one array per polygon.
RaggedPolys ==
    NpObjectArray(<< NpArray(<<NpInt64(0), NpInt64(1)>>),
                     NpArray(<<NpInt64(0), NpInt64(1), NpInt64(2)>>) >>)

\* Values that hold no python container: python scalars, numpy scalars,
\* arrays and objects that only offer __array__.
ConvertLeaves ==
    { None, PyStr(<<"a">>), PyInt(1), PyFloat(Half), PyBool(TRUE),
      NpInt64(1), NpFloat32(Half), NpBool(TRUE),
      NpArray(<<NpInt64(0), NpInt64(1)>>), Poly, RaggedPolys,
      ArrayLike(NpInt64(1)), ArrayLike(Poly), ArrayLikeRaising }

\* Keys of a mapping: a str and a numpy integer.
ConvertKeys == { PyStr(<<"k">>), NpInt64(1) }

\* The containers around a value x: a list, a tuple and a dict under each
\* key.
Containers(x) ==
    { PyList(<<x>>), PyTuple(<<x, x>>) }
      \cup { PyDict(<<Item(k, x)>>) : k \in ConvertKeys }

RECURSIVE Nested(_)
\* The structures nested at most d deep.
Nested(d) ==
    IF d = 0 THEN ConvertLeaves
    ELSE LET inner == Nested(d - 1)
         IN  inner \cup UNION { Containers(x) : x \in inner }

ConvertInputs == Nested(MaxDepth)

InitConvert ==
    /\ gemini_model = FALSE
    /\ supabase = FALSE
    /\ ocr = 0
    /\ constructed = 0
    /\ tempStorage = {}
    /\ inserts = <<>>
    /\ req = [r \in Reqs |-> IdleReq]
    /\ running = 0
    /\ fnIn \in ConvertInputs
    /\ fnOut = NoData

\* convert_to_json_serializable(fnIn)
ApplyConvert ==
    /\ fnOut.t = "unbound"
    /\ fnOut' = [t |-> "once", once |-> convert_to_json_serializable(fnIn)]
    /\ UNCHANGED << gemini_model, supabase, ocr, constructed, tempStorage, inserts,
                    req, running, fnIn >>

\* convert_to_json_serializable on the result of the first call.
ApplyConvertAgain ==
    /\ fnOut.t = "once"
    /\ fnOut' = [t |-> "twice", once |-> fnOut.once,
                 twice |-> convert_to_json_serializable(fnOut.once)]
    /\ UNCHANGED << gemini_model, supabase, ocr, constructed, tempStorage, inserts,
                    req, running, fnIn >>

NextConvert == ApplyConvert \/ ApplyConvertAgain

SpecConvert == InitConvert /\ [][NextConvert]_vars

\* ------------------------------------------------ properties: extraction

\* The detections of an engine result, page after page: each recognized
\* text with the score at its position, if there is one.
PageDetections(res) ==
    LET ts == DictGet(res, "rec_texts", PyList(<<>>)).v
        ss == DictGet(res, "rec_scores", PyList(<<>>)).v
    IN  [i \in 1..Len(ts) |->
           [text |-> ts[i].s,
            scored |-> i <= Len(ss) /\ ss[i].t # "None",
            score |-> IF i <= Len(ss) /\ ss[i].t # "None" THEN ss[i].v ELSE Zero]]

RECURSIVE DetectionsOf(_)
DetectionsOf(pages) ==
    IF pages = <<>> THEN <<>>
    ELSE (IF Head(pages).t = "dict" THEN PageDetections(Head(pages)) ELSE <<>>)
           \o DetectionsOf(Tail(pages))

HasText(d) == d.text # <<>>
IsScored(d) == d.scored

\* The detections of an engine result with non-empty text, in its order.
KeptOf(result) == SelectSeq(DetectionsOf(result.v), HasText)

KeptDetections == KeptOf(fnIn)

RECURSIVE JoinLines(_)
\* Each text followed by a line break.
JoinLines(ds) ==
    IF ds = <<>> THEN <<>> ELSE Head(ds).text \o <<NL>> \o JoinLines(Tail(ds))

\* C8: for an engine output with N detections of which K have non-empty
\* text, the extraction returns exactly K text lines, the i-th carrying the
\* i-th non-empty text, and the full text is those K texts in the same order,
\* each followed by a line break.
C8_LinesAreNonEmptyTextsInOrder ==
    fnOut.t = "done" =>
        /\ Len(fnOut.text_lines) = Len(KeptDetections)
        /\ \A i \in 1..Len(KeptDetections) :
             DictGet(fnOut.text_lines[i], "text", None) = PyStr(KeptDetections[i].text)
        /\ fnOut.extracted_text = JoinLines(KeptDetections)

\* C8 witness: an output with three detections, two of them with (different)
\* non-empty text around an empty one, has been extracted.
C8_Witness ==
    /\ fnOut.t = "done"
    /\ Len(DetectionsOf(fnIn.v)) >= 3
    /\ Len(KeptDetections) = 2
    /\ KeptDetections[1].text # KeptDetections[2].text
    /\ DetectionsOf(fnIn.v)[1].text = <<>>

\* The kept detections that carry a score.
ScoredOf(result) == SelectSeq(KeptOf(result), IsScored)

PresentScores == ScoredOf(fnIn)

RECURSIVE SumScores(_)
SumScores(ds) == IF ds = <<>> THEN Zero ELSE RatAdd(Head(ds).score, SumScores(Tail(ds)))

\* C9: the overall confidence of the secondary path is the arithmetic mean
\* of the confidences present on its lines (mean * count = sum); it is None
\* exactly when no line carries a confidence, so a mean of 0 is the float 0.
C9_ConfidenceIsMeanOfPresent ==
    fnOut.t = "done" =>
        /\ (fnOut.confidence.t = "None") <=> (PresentScores = <<>>)
        /\ (fnOut.avg_confidence.t = "None") <=> (PresentScores = <<>>)
        /\ PresentScores # <<>> =>
             /\ fnOut.confidence.t = "float"
             /\ fnOut.confidence = fnOut.avg_confidence
             /\ fnOut.confidence.v.num * Len(PresentScores) * SumScores(PresentScores).den
                  = SumScores(PresentScores).num * fnOut.confidence.v.den

\* C9 witness: lines with and without a confidence whose present
\* confidences are all 0, reported as the float 0.
C9_Witness ==
    /\ fnOut.t = "done"
    /\ Len(PresentScores) >= 1
    /\ Len(PresentScores) < Len(KeptDetections)
    /\ fnOut.confidence = PyFloat(Zero)

\* --------------------------------------------------- properties: handlers

Count(events, e) == Cardinality({ i \in DOMAIN events : events[i] = e })
Called(q, e) == Count(q.cur.events, e) > 0
Mentions(msg, token) == \E i \in DOMAIN msg : msg[i] = token
Last(xs) == xs[Len(xs)]

\* The handler is through with its current file: /ocr has answered, /upload
\* has left the file's finally block.
FileEnded(q) ==
    \/ q.endpoint = "ocr" /\ q.pc = "done"
    \/ q.endpoint = "upload" /\ q.pc = "file_done"

\* The file ended as a success response (/ocr) or a documents entry (/upload).
FileSucceeded(q) ==
    IF q.endpoint = "ocr" THEN q.response.status = 200 ELSE Called(q, "append_doc")

\* The OCRResult the caller gets for the file.
FileResult(q) ==
    IF q.endpoint = "ocr" THEN q.response.data.data ELSE Last(q.successful_docs)

\* The file ended as an error: an HTTP error (/ocr), an errors entry (/upload).
FileFailed(q) ==
    IF q.endpoint = "ocr" THEN q.response.status >= 400 ELSE Called(q, "append_err")

\* The message of the file's error.
FileErrorMsg(q) ==
    IF q.endpoint = "ocr" THEN q.response.detail ELSE Last(q.errors).error

\* The rows submitted to the table for request r's current file.
RowsOf(r, q) == { i \in DOMAIN inserts : inserts[i].row.id = <<r, q.idx>> }

\* c is the arithmetic mean of the scores of ds, None when ds is empty.
IsMeanOf(c, ds) ==
    IF ds = <<>> THEN c.t = "None"
    ELSE /\ c.t = "float"
         /\ c.v.num * Len(ds) * SumScores(ds).den = SumScores(ds).num * c.v.den

\* The OCRResult res is what the engine result `predicted` amounts to: its
\* non-empty texts as lines and text, the mean of their scores.
ResultIsSecondarys(res, predicted) ==
    LET kept == KeptOf(predicted)
    IN  /\ res.extracted_text = Strip(JoinLines(kept))
        /\ res.text_lines.t = "list"
        /\ Len(res.text_lines.v) = Len(kept)
        /\ \A i \in 1..Len(kept) :
             /\ DictGet(res.text_lines.v[i], "text", None) = PyStr(kept[i].text)
             /\ DictGet(res.text_lines.v[i], "line_number", None) = None
        /\ IsMeanOf(res.confidence, ScoredOf(predicted))

\* C1: when the Gemini call raised for a file, predict() has been called
\* exactly once for it by the time the file is done, a result returned for
\* the file is the secondary engine's (text, lines, mean confidence), and an
\* error reported for the file does not carry the Gemini exception.
C1_PrimaryRaiseFallsBackOnce ==
    \A r \in Reqs :
      LET q == req[r]
      IN  (FileEnded(q) /\ q.cur.primary = "raised") =>
            /\ Count(q.cur.events, "predict_call") = 1
            /\ FileSucceeded(q) =>
                 /\ q.cur.secondary = "returned"
                 /\ ResultIsSecondarys(FileResult(q), q.cur.predicted)
            /\ FileFailed(q) => ~Mentions(FileErrorMsg(q), GeminiFailedMsg[1])

\* C1 witness: a file whose Gemini call raised ended with the secondary
\* engine's two lines as its result.
C1_Witness ==
    \E r \in Reqs :
      LET q == req[r]
      IN  /\ FileEnded(q) /\ q.cur.primary = "raised"
          /\ FileSucceeded(q)
          /\ Len(KeptOf(q.cur.predicted)) = 2

\* What a file ends as when only the secondary engine decides it.
FallbackOutcomeHolds(r, q) ==
    /\ Count(q.cur.events, "predict_call") = 1
    /\ \A i \in RowsOf(r, q) :
         /\ inserts[i].row.ocr_method = "paddleocr"
         /\ inserts[i].row.extracted_text = Strip(JoinLines(KeptOf(q.cur.predicted)))
         /\ IsMeanOf(inserts[i].row.confidence, ScoredOf(q.cur.predicted))
    /\ FileSucceeded(q) =>
         /\ q.cur.secondary = "returned"
         /\ q.cur.ocr_method = "paddleocr"
         /\ ResultIsSecondarys(FileResult(q), q.cur.predicted)
    /\ FileSucceeded(q) <=>
         /\ q.cur.secondary = "returned"
         /\ KeptOf(q.cur.predicted) # <<>>
         /\ q.cur.store \in {"not_called", "ok"}
    /\ (q.cur.secondary = "raised") =>
         FileFailed(q) /\ Mentions(FileErrorMsg(q), PredictFailedMsg[1])
    /\ (q.cur.secondary = "returned" /\ KeptOf(q.cur.predicted) = <<>>) =>
         FileFailed(q) /\ Mentions(FileErrorMsg(q), BothFailedMsg[1])

\* C2: when Gemini returned empty or missing text, the file ends exactly as
\* the secondary engine alone decides it, as after a Gemini exception:
\* predict() called once, result and row the secondary's (text, lines, mean
\* confidence, 'paddleocr'), nothing of Gemini's 0.95 or 'gemini' in them.
C2_EmptyPrimaryIsFailedPrimary ==
    \A r \in Reqs :
      LET q == req[r]
      IN  (FileEnded(q) /\ q.cur.primary \in {"empty", "raised"}) =>
             FallbackOutcomeHolds(r, q)

\* C2 witness: Gemini answered blank text, the secondary engine's unscored
\* line was stored and returned with confidence None.
C2_Witness ==
    \E r \in Reqs :
      LET q == req[r]
      IN  /\ FileEnded(q) /\ q.cur.primary = "empty"
          /\ FileSucceeded(q)
          /\ FileResult(q).confidence = None
          /\ RowsOf(r, q) # {}

\* C3: when the Gemini call raised and predict() returned no detection with
\* non-empty text, the file ends in the both-engines-failed error (HTTP 500
\* for /ocr, an errors entry for /upload), without a success response or
\* documents entry, and no row was submitted for it.
C3_BothEnginesFailed ==
    \A r \in Reqs :
      LET q == req[r]
      IN  (/\ FileEnded(q)
           /\ q.cur.primary = "raised"
           /\ q.cur.secondary = "returned"
           /\ KeptOf(q.cur.predicted) = <<>>) =>
            /\ ~FileSucceeded(q)
            /\ FileFailed(q)
            /\ q.endpoint = "ocr" =>
                 /\ q.response.status = 500
                 /\ q.response.detail = <<"Error processing document: ">> \o BothFailedMsg
            /\ q.endpoint = "upload" =>
                 /\ ~Called(q, "append_doc")
                 /\ Count(q.cur.events, "append_err") = 1
                 /\ Last(q.errors) = [filename |-> q.cur.filename,
                                      error |-> <<"Error processing file: ">> \o BothFailedMsg]
            /\ RowsOf(r, q) = {}
            /\ ~Called(q, "insert_call")

\* C3 witness: with the store configured, a page whose only text is empty
\* came back after the Gemini call raised.
C3_Witness ==
    \E r \in Reqs :
      LET q == req[r]
      IN  /\ FileEnded(q) /\ supabase
          /\ q.cur.primary = "raised"
          /\ q.cur.secondary = "returned"
          /\ Len(DetectionsOf(q.cur.predicted.v)) = 1
          /\ KeptOf(q.cur.predicted) = <<>>

\* The name ends, whatever the case of its letters, in one of the allowed
\* extensions, after a stem that is not only dots.
NameAllowed(filename) ==
    \E e \in allowed_extensions :
      /\ Len(filename) > Len(e)
      /\ \A i \in 1..Len(e) : LowerChar(filename[Len(filename) - Len(e) + i]) = e[i]
      /\ \E k \in 1..(Len(filename) - Len(e)) : filename[k] # "."

ProcessingEvents ==
    {"temp_create", "temp_write", "gemini_call", "get_ocr", "construct",
     "predict_call", "insert_call", "unlink", "append_doc"}

\* C4: a file whose lower-cased extension is allowed is accepted (its temp
\* file gets written and it is not refused as unsupported); any other file
\* is refused as unsupported (HTTP 400 in /ocr, an errors entry in /upload)
\* with no temp file created, no engine called and no row submitted for it.
C4_ExtensionGate ==
    \A r \in Reqs :
      LET q == req[r]
      IN  /\ (FileEnded(q) /\ NameAllowed(q.cur.filename)) =>
                /\ Called(q, "temp_write")
                /\ FileFailed(q) => ~Mentions(FileErrorMsg(q), "File type ")
          /\ (q.pc # "idle" /\ ~NameAllowed(q.cur.filename)) =>
                /\ \A i \in DOMAIN q.cur.events : q.cur.events[i] \notin ProcessingEvents
                /\ TempPath(r, q) \notin tempStorage
                /\ RowsOf(r, q) = {}
                /\ FileEnded(q) =>
                     /\ FileFailed(q)
                     /\ ~FileSucceeded(q)
                     /\ Head(FileErrorMsg(q)) = "File type "
                     /\ q.endpoint = "ocr" => q.response.status = 400

\* C4 witness: b.PDF, its extension lower-cased to .pdf, has been processed
\* to a stored document.
C4_Witness ==
    \E r \in Reqs :
      LET q == req[r]
      IN  /\ FileEnded(q)
          /\ q.cur.filename = <<"b", ".", "P", "D", "F">>
          /\ q.cur.file_extension = <<".", "p", "d", "f">>
          /\ FileSucceeded(q)
          /\ RowsOf(r, q) # {}

RECURSIVE FailedNames(_, _, _)
\* The names of the files 1..k of the batch that have no documents entry.
FailedNames(r, q, k) ==
    IF k = 0 THEN <<>>
    ELSE LET before == FailedNames(r, q, k - 1)
         IN  IF \E i \in DOMAIN q.successful_docs :
                    q.successful_docs[i].document_id = <<r, k>>
             THEN before
             ELSE Append(before, q.files[k].filename)

\* C5: in /upload the loop handles the files in order whatever fails: before
\* file idx there are idx - 1 entries, each file leaves its finally block
\* having added exactly one entry (documents, or errors under its own name),
\* and the summary covers every file: documents in upload order, errors
\* naming the other files in upload order, successful + failed = total_files.
C5_BatchAccountsForEveryFile ==
    \A r \in Reqs :
      LET q == req[r]
          entries == Len(q.successful_docs) + Len(q.errors)
      IN  q.endpoint = "upload" =>
            /\ q.pc \in {"loop", "await_read", "gemini", "fallback", "construct",
                         "predict", "check", "store", "respond"} => entries = q.idx - 1
            /\ (q.pc # "done" /\ q.idx <= Len(q.files)) =>
                 q.cur.filename = q.files[q.idx].filename
            /\ q.pc = "file_done" =>
                 /\ entries = q.idx
                 /\ Count(q.cur.events, "append_doc") + Count(q.cur.events, "append_err") = 1
                 /\ Called(q, "append_err") => Last(q.errors).filename = q.files[q.idx].filename
                 /\ Called(q, "append_doc") =>
                      /\ Last(q.successful_docs).document_id = <<r, q.idx>>
                      /\ Last(q.successful_docs).filename = q.files[q.idx].filename
            /\ q.pc = "done" =>
                 LET resp == q.response.data
                 IN  /\ q.idx = Len(q.files) + 1
                     /\ resp.total_files = Len(q.files)
                     /\ resp.successful + resp.failed = resp.total_files
                     /\ resp.successful = Len(resp.documents)
                     /\ resp.failed = Len(q.errors)
                     /\ \A i, j \in DOMAIN resp.documents :
                          i < j => resp.documents[i].document_id[2] < resp.documents[j].document_id[2]
                     /\ [i \in DOMAIN q.errors |-> q.errors[i].filename]
                          = FailedNames(r, q, Len(q.files))

\* C5 witness: a finished batch of two files whose first file was rejected
\* by the store and whose second file is a documents entry.
C5_Witness ==
    \E r \in Reqs :
      LET q == req[r]
      IN  /\ q.endpoint = "upload" /\ q.pc = "done"
          /\ Len(q.files) = 2
          /\ Len(q.errors) = 1
          /\ Head(q.errors[1].error) = "Database error: "
          /\ Len(q.successful_docs) = 1
          /\ q.successful_docs[1].document_id = <<r, 2>>

\* C6: every engine call on a file comes after its temp file was written,
\* and once the request has completed none of its temp files exists, on
\* every exit path, a failing temp write or unlink included.
C6_TempFilesReleased ==
    \A r \in Reqs :
      LET q == req[r]
      IN  /\ \A i \in DOMAIN q.cur.events :
               q.cur.events[i] \in {"gemini_call", "predict_call"} =>
                 \E j \in 1..(i - 1) : q.cur.events[j] = "temp_write"
          /\ q.pc = "done" => \A k \in 1..Len(q.files) : <<r, k>> \notin tempStorage

DbLabel == "Database error: "
ProcessingLabels == {"Error processing document: ", "Error processing file: "}

\* Neither engine produced text for the file.
ExtractionFailed(q) ==
    \/ q.cur.secondary = "raised"
    \/ q.cur.secondary = "returned" /\ KeptOf(q.cur.predicted) = <<>>

\* C7: a file whose row the table rejected (exception, or no data) ends in
\* an error that starts with the database label and carries no processing
\* label; a file whose extraction failed ends in an error with a processing
\* label and no database label; the database label appears only after a
\* rejected insert.  In /ocr the error is the HTTP detail, in /upload the
\* errors entry.
C7_DatabaseErrorsAreLabelled ==
    \A r \in Reqs :
      LET q == req[r]
          msg == FileErrorMsg(q)
      IN  FileEnded(q) =>
            /\ q.cur.store \in {"no_data", "raise"} =>
                 /\ FileFailed(q)
                 /\ Head(msg) = DbLabel
                 /\ \A l \in ProcessingLabels : ~Mentions(msg, l)
                 /\ q.endpoint = "ocr" => q.response.status = 500
            /\ ExtractionFailed(q) =>
                 /\ FileFailed(q)
                 /\ Head(msg) \in ProcessingLabels
                 /\ ~Mentions(msg, DbLabel)
            /\ (FileFailed(q) /\ Mentions(msg, DbLabel)) =>
                 q.cur.store \in {"no_data", "raise"}

\* C7 witness: /ocr extracted text, the insert returned no data, and the
\* answer is HTTP 500 with the database label.
C7_Witness ==
    \E r \in Reqs :
      LET q == req[r]
      IN  /\ q.endpoint = "ocr" /\ q.pc = "done"
          /\ q.cur.store = "no_data"
          /\ q.cur.document_data.extracted_text # <<>>
          /\ q.response.status = 500
          /\ Head(q.response.detail) = DbLabel

\* C10: PaddleOCR is constructed at most once: a request constructs only
\* while the global is still None, and every request that goes on to
\* predict() holds the one instance.
C10_EngineConstructedOnce ==
    /\ constructed <= 1
    /\ ocr = constructed
    /\ \A r \in Reqs :
         /\ req[r].pc = "construct" => ocr = 0
         /\ req[r].pc = "predict" => ocr = 1
         /\ \A r2 \in Reqs \ {r} :
              ~(Called(req[r], "construct") /\ Called(req[r2], "construct"))

\* C10 witness: a request that began before another one constructed the
\* engine has called get_ocr() after it and constructed nothing.
C10_Witness ==
    \E r \in Reqs : \E r2 \in Reqs \ {r} :
      /\ Called(req[r], "get_ocr") /\ ~Called(req[r], "construct")
      /\ req[r].pc = "predict"
      /\ req[r].idx = 1
      /\ Called(req[r2], "construct")
      /\ req[r2].pc = "await_read" \/ req[r2].pc = "done"
      /\ constructed = 1


\* ------------------------------------------------ properties: conversion

RECURSIVE HasNumpy(_)
\* A numpy scalar, an array or an __array__ object is x or is held by x, as
\* an element, a value or a key.
HasNumpy(x) ==
    CASE x.t \in {"ndarray", "ndarray_object", "np.int64", "np.float32", "np.bool_",
                  "array_like", "array_like_raising"} -> TRUE
      [] x.t \in {"list", "tuple"} -> \E i \in 1..Len(x.v) : HasNumpy(x.v[i])
      [] x.t = "dict" ->
            \E i \in 1..Len(x.v) : HasNumpy(x.v[i].k) \/ HasNumpy(x.v[i].x)
      [] OTHER -> FALSE

IsNumber(x) == x.t \in {"int", "float", "bool", "np.int64", "np.float32", "np.bool_"}

NumberValue(x) ==
    CASE x.t \in {"int", "np.int64"} -> Rat(x.v, 1)
      [] x.t \in {"bool", "np.bool_"} -> IF x.v THEN Rat(1, 1) ELSE Rat(0, 1)
      [] OTHER -> x.v

RECURSIVE PyEquals(_, _)
\* a == b as python decides it: numbers by value whatever their type,
\* sequences of one type element by element, mappings item by item, and any
\* other pair only when it is one and the same object.
PyEquals(a, b) ==
    CASE IsNumber(a) /\ IsNumber(b) -> NumberValue(a) = NumberValue(b)
      [] a.t = b.t /\ a.t \in {"list", "tuple"} ->
            /\ Len(a.v) = Len(b.v)
            /\ \A i \in 1..Len(a.v) : PyEquals(a.v[i], b.v[i])
      [] a.t = b.t /\ a.t = "dict" ->
            /\ Len(a.v) = Len(b.v)
            /\ \A i \in 1..Len(a.v) :
                  PyEquals(a.v[i].k, b.v[i].k) /\ PyEquals(a.v[i].x, b.v[i].x)
      [] OTHER -> a.t = b.t /\ a = b

\* C11: convert_to_json_serializable is idempotent: for every structure of
\* mappings, sequences, arrays and fixed-width numbers, converting the
\* converted structure gives a structure equal to the converted one.
C11_ConvertIdempotent ==
    fnOut.t = "twice" => PyEquals(fnOut.twice, fnOut.once)

\* C12: the output of convert_to_json_serializable holds no fixed-width
\* number, array or __array__ wrapper anywhere, mapping keys and tuples
\* included: each has become a plain int, float, bool or list.
C12_NoResidualNumpy ==
    fnOut.t \in {"once", "twice"} => ~HasNumpy(fnOut.once)


\* ------------------------------------------------ properties: text lines

\* The lines of the OCRResult the caller gets, none when text_lines is None.
ReturnedLines(q) ==
    IF FileResult(q).text_lines.t = "list" THEN FileResult(q).text_lines.v ELSE <<>>

\* The field names of a line.
FieldsOf(line) == { line.v[i].k : i \in 1..Len(line.v) }

LineSchema == {"text", "confidence", "polygon", "line_number"}

\* C13: every text line returned to the caller has the same field set
\* whichever engine produced it: text, confidence, geometry and line index
\* are all present, the one the engine does not supply being null.
C13_LinesShareOneSchema ==
    \A r \in Reqs :
        LET q == req[r]
        IN  FileEnded(q) /\ FileSucceeded(q) =>
                \A j \in 1..Len(ReturnedLines(q)) :
                    FieldsOf(ReturnedLines(q)[j]) = LineSchema

\* C14: on the primary-engine path the lines that survive the empty-line
\* filter are numbered 1, 2, ..., k in order with no gaps, whatever blank
\* lines the returned text has between them.
C14_GeminiLinesNumberedWithoutGaps ==
    \A r \in Reqs :
        LET q == req[r]
        IN  FileEnded(q) /\ FileSucceeded(q) /\ q.cur.ocr_method = "gemini" =>
                \A j \in 1..Len(ReturnedLines(q)) :
                    DictGet(ReturnedLines(q)[j], "line_number", None) = PyInt(j)


\* ------------------------------------------- properties: rows and engines

\* The texts the primary stage can hand to the handler as non-empty.
PrimaryTexts ==
    { extract_text_with_gemini(o.text).extracted_text :
        o \in { g \in GeminiOutcomes : ~g.raises } } \ {<<>>}

\* The text the secondary stage extracts from what predict() returned.
SecondaryText(predicted) ==
    extract_text_from_ocr_result(convert_to_json_serializable(predicted)).extracted_text

\* Every a in events comes before every b.
Before(events, a, b) ==
    \A i, j \in DOMAIN events : events[i] = a /\ events[j] = b => i < j

\* C15: in every row submitted to the store the method tag is 'gemini' or
\* 'paddleocr', never unset, and names the engine whose output is the
\* row's text: 'gemini' only if the primary returned non-empty text (and
\* the secondary did not run), 'paddleocr' only if the secondary stage ran.
C15_MethodTagNamesTheEngine ==
    /\ \A i \in DOMAIN inserts : inserts[i].row.ocr_method \in {"gemini", "paddleocr"}
    /\ \A r \in Reqs :
          LET q == req[r]
          IN  \A i \in RowsOf(r, q) :
                LET row == inserts[i].row
                IN  /\ row.ocr_method = "gemini" =>
                          /\ q.cur.primary = "text"
                          /\ q.cur.secondary = "not_called"
                          /\ row.extracted_text \in PrimaryTexts
                    /\ row.ocr_method = "paddleocr" =>
                          /\ q.cur.secondary = "returned"
                          /\ row.extracted_text = Strip(SecondaryText(q.cur.predicted))

\* C15 witness: a batch has submitted one row tagged gemini and one tagged
\* paddleocr.
C15_Witness ==
    /\ \E i \in DOMAIN inserts : inserts[i].row.ocr_method = "gemini"
    /\ \E i \in DOMAIN inserts : inserts[i].row.ocr_method = "paddleocr"

\* C16: whenever /ocr returns success or /upload adds a documents entry,
\* the extracted_text of the response and of the persisted row is
\* non-empty, whatever the engines returned (texts of whitespace only
\* included): a file whose final text is empty fails instead.
C16_SuccessHasText ==
    \A r \in Reqs :
        LET q == req[r]
        IN  FileEnded(q) /\ FileSucceeded(q) =>
                /\ FileResult(q).extracted_text # <<>>
                /\ \A i \in RowsOf(r, q) : inserts[i].row.extracted_text # <<>>

\* C17: for each file that reaches extraction, the primary engine is
\* called at most once and the secondary at most once, the primary before
\* the secondary; the secondary is called if and only if the primary is
\* not configured, raised or returned empty text; and when the primary
\* returned non-empty text the secondary is neither called nor initialized.
C17_EnginesCalledOnceInOrder ==
    \A r \in Reqs :
        LET q == req[r]
            events == q.cur.events
        IN  /\ Count(events, "gemini_call") <= 1
            /\ Count(events, "predict_call") <= 1
            /\ Before(events, "gemini_call", "predict_call")
            /\ Called(q, "gemini_call") => gemini_model
            /\ q.cur.primary = "text" =>
                  ~Called(q, "predict_call") /\ ~Called(q, "get_ocr") /\ ~Called(q, "construct")
            /\ FileEnded(q) /\ Called(q, "temp_write") =>
                  ( Called(q, "predict_call") <=>
                      (~gemini_model \/ q.cur.primary \in {"raised", "empty"}) )

\* C17 witness: a file is through whose primary call returned empty text
\* and whose secondary call followed.
C17_Witness ==
    \E r \in Reqs :
      LET q == req[r]
      IN  /\ FileEnded(q)
          /\ q.cur.primary = "empty"
          /\ Called(q, "gemini_call") /\ Called(q, "predict_call")

\* The table after a step: what it held, with at most one row added.
InsertOnly ==
    \/ inserts' = inserts
    \/ Len(inserts') = Len(inserts) + 1 /\ SubSeq(inserts', 1, Len(inserts)) = inserts

\* C18: for each file the insert is invoked at most once, only when the
\* store is configured and only after extraction has finished with
\* non-empty text; no insert is issued for a file rejected for its
\* extension or whose extraction failed; and no row once submitted is
\* updated or deleted.
C18_InsertAtMostOnce ==
    /\ [](\A r \in Reqs :
            LET q == req[r]
            IN  /\ Count(q.cur.events, "insert_call") <= 1
                /\ Cardinality(RowsOf(r, q)) = Count(q.cur.events, "insert_call")
                /\ Called(q, "insert_call") =>
                      /\ supabase
                      /\ NameAllowed(q.cur.filename)
                      /\ q.cur.extracted_text # <<>>
                      /\ q.cur.primary = "text" \/ q.cur.secondary = "returned"
                /\ ExtractionFailed(q) => ~Called(q, "insert_call"))
    /\ [](\A i, j \in DOMAIN inserts : inserts[i].row.id = inserts[j].row.id => i = j)
    /\ [](inserts # <<>> => supabase)
    /\ [][InsertOnly]_vars

\* C18 witness: a batch of two files has submitted one row for each.
C18_Witness ==
    \E r \in Reqs :
      LET q == req[r]
      IN  /\ q.endpoint = "upload" /\ q.idx = 2 /\ FileEnded(q)
          /\ Len(inserts) = 2
          /\ inserts[1].row.id # inserts[2].row.id

====
